---- MODULE Spec2Model ----
(***************************************************************************)
(* A model of the scraping engine of Ai_l3gvl_assistant:                   *)
(*   - BaseScraper.fetch_page: rate limiter, tenacity retry decorator,     *)
(*     Playwright fallback and page cache                                  *)
(*   - BaseScraper.scrape_multiple_states: semaphore-bounded fan-out       *)
(*   - MichiganLegislatureScraper.scrape_state: recursive listing walk     *)
(*   - CourtListener scrapers: cursor-paginated API and fetch_api          *)
(*   - JustiaScraper.scrape_state: index, code sections, statute pages     *)
(*   - BaseScraper.validate_statute                                        *)
(* Time is counted in whole seconds.                                       *)
(***************************************************************************)
EXTENDS Integers, Sequences, FiniteSets, TLC

VARIABLES
    \* ---- fetch layer (BaseScraper) ----
    config,         \* ScraperConfig fields read by the fetch layer
    workload,       \* what the callers and the server do in this run
    now,            \* time.time(), in seconds
    session,        \* self.session is not None
    request_times,  \* self.request_times
    stats,          \* self.stats (requests_made, requests_failed)
    pw,             \* self._playwright, _playwright_browser, _playwright_context
    cache,          \* the cache file of the fetched URL
    call,           \* per caller: the fetch_page call it is in
    calls_left,     \* per caller: fetch_page calls still to issue
    log,            \* history: dispatch times and per-run totals
    \* ---- scrape_multiple_states ----
    state_codes,    \* the state_codes argument
    max_concurrent, \* the max_concurrent argument, 0 for None
    semaphore,      \* asyncio.Semaphore: its free permits
    unit,           \* per submitted unit: its scrape_with_semaphore task
    completed,      \* history: unit indices in completion order
    gathered,       \* the call's position and what it returned
    \* ---- MichiganLegislatureScraper.scrape_state ----
    site,           \* the pages of the site: kind and table links of each URL
    args,           \* scrape_state's arguments
    visited_urls,   \* self._visited_urls
    statutes,       \* the statutes list: source_url of each collected statute
    stack,          \* the loops in progress: scrape_state's and _scrape_listing's
    fetched,        \* history: fetch_page calls made per URL
    walk,           \* scrape_state's position and outcome
    \* ---- CourtListener scrapers ----
    api,            \* the API: its pages of search results
    cl_args,        \* which scraper runs, and its max_cases
    cases,          \* the cases list
    cl,             \* the pagination loop's and fetch_api's position
    http,           \* history: requests the API has answered
    \* ---- JustiaScraper.scrape_state ----
    jx_site,        \* the state's index page, code sections and statute pages
    jx_args,        \* scrape_state's arguments
    jx,             \* scrape_state's position, lists and outcome
    jx_fetched,     \* history: fetch_page calls, with the count collected then
    \* ---- validate_statute ----
    statute,        \* the ScrapedStatute handed to validate_statute
    errors,         \* what validate_statute returned
    \* ---- close_session ----
    closing,        \* close_session's position, and history: what it closed
    \* ---- WisconsinLegislatureScraper.scrape_state ----
    wi_site,        \* the section links of each chapter page
    chapter_slugs,  \* self._chapter_slugs, 0 while the attribute is not set
    wi,             \* per scrape_state call: arguments, position, statutes
    wi_fetched,     \* history: index pages fetched, items_scraped as assigned
    \* ---- CourtListenerStateCourtsScraper.scrape_state_cases ----
    court_list,     \* the courts of the state, from get_all_state_courts
    sc,             \* scrape_state_cases' position, budget and cases
    \* ---- ModelRouter.route_query ----
    router,         \* self.strategy and route_query's arguments
    routed          \* what route_query returned

fetchVars == <<config, workload, now, session, request_times, stats, pw, cache,
               call, calls_left, log>>

orchVars == <<state_codes, max_concurrent, semaphore, unit, completed, gathered>>

miVars == <<site, args, visited_urls, statutes, stack, fetched, walk>>

clVars == <<api, cl_args, cases, cl, http>>

jxVars == <<jx_site, jx_args, jx, jx_fetched>>

vsVars == <<statute, errors>>

wiVars == <<wi_site, chapter_slugs, wi, wi_fetched>>

courtsVars == <<court_list, sc>>

routerVars == <<router, routed>>

laterVars == <<wiVars, courtsVars, routerVars>>

strategyVars == <<clVars, jxVars, vsVars, laterVars>>

sessionVars == <<closing>>

nonFetchVars == <<orchVars, miVars, strategyVars, sessionVars>>

vars == <<fetchVars, orchVars, miVars, strategyVars, sessionVars>>

\* ------------------------------------------------------------------ bounds
MaxTime == 6          \* the clock stops here
MaxTasks == 2         \* concurrent callers of fetch_page
MaxCalls == 2         \* fetch_page calls one caller issues in sequence
MaxFails == 3         \* transient failures a server plan starts with
MaxDelay == 2         \* largest rate_limit_delay, seconds
MaxRetriesCfg == 4    \* largest configured max_retries
MaxUnits == 3         \* units submitted to scrape_multiple_states
MaxCap == 2           \* largest concurrency cap
MaxStatutes == 1      \* statutes one scrape_state call returns
MaxPages == 2         \* pages of the site besides the chapter index
MaxLinks == 2         \* rows of a listing table
MaxBudget == 1        \* largest max_statutes and max_statutes_per_chapter
MaxApiPages == 2      \* pages of one API search
MaxResults == 3       \* results on all pages of one search together
MaxCases == 2         \* largest max_cases
Max429 == 2           \* 429 answers of the API in one run
MaxApiFailures == 1   \* error answers of the API in one run
MaxSections == 2      \* code sections on a state's index page
MaxSectionLinks == 3  \* statute links of all sections together
MaxJustiaBudget == 2  \* largest max_statutes given to JustiaScraper
MaxStateLen == 3      \* longest state field of a statute
MaxFieldLen == 1      \* longest statute_number, title and source_url
MaxTextLen == 51      \* longest full_text
MaxCloses == 2        \* close_session calls on one scraper
MaxLatency == 1       \* longest wait for an API response, seconds
MaxChapters == 4      \* chapters on the index of a sample-mode site
MaxJxCalls == 2       \* scrape_state calls on one Justia scraper
MaxWiCalls == 2       \* scrape_state calls on one Wisconsin scraper
MaxWiChapters == 2    \* chapters the Wisconsin index lists
MaxWiSections == 1    \* section links of a Wisconsin chapter page
MaxWiBudget == 1      \* largest max_statutes given to the Wisconsin scraper
MaxCourts == 2        \* courts of one state
MaxStateCases == 2    \* largest max_cases given to scrape_state_cases
MaxWords == 101       \* words of the longest query

\* ------------------------------------------------------- program constants
StopAfterAttempt == 3     \* stop_after_attempt(3)
WaitMultiplier == 1       \* wait_exponential(multiplier=1, ...)
WaitMin == 2              \* wait_exponential(min=2)
WaitMax == 10             \* wait_exponential(max=10)
RateWindow == 60          \* "older than 60 seconds"

HTTP_OK == 200
Statuses == {403, 404, 429, 500, 503}
TransientErrors == {"TimeoutException", "NetworkError"}

Max(a, b) == IF a >= b THEN a ELSE b
Min(a, b) == IF a <= b THEN a ELSE b

RECURSIVE Pow(_, _)
Pow(b, e) == IF e = 0 THEN 1 ELSE b * Pow(b, e - 1)

Last(s) == s[Len(s)]

\* -------------------------------------------------------------- tenacity
\* wait_exponential.__call__: multiplier * 2 ** (attempt_number - 1),
\* clamped to [min, max].
WaitExponentialFromTwo(attempt_number) ==
    Max(Max(0, WaitMin), Min(WaitMultiplier * Pow(2, attempt_number), WaitMax))

WaitExponential(attempt_number) ==
    Max(Max(0, WaitMin), Min(WaitMultiplier * Pow(2, attempt_number - 1), WaitMax))

\* retry_if_exception_type((httpx.TimeoutException, httpx.NetworkError))
RetryIfAnyError(exc) == exc \in TransientErrors \cup {"HTTPStatusError"}

RetryIfExceptionType(exc) == exc \in TransientErrors

\* stop_after_attempt(3): the decorator's literal, not config.max_retries
StopAfterAttemptReached(attempt_number) == attempt_number >= StopAfterAttempt

\* ----------------------------------------------------------------- server
\* A server plan: the first `fails` requests of a call fail transiently,
\* every later one is answered with `final`.
Plans == [fails : 0..MaxFails, final : {HTTP_OK} \cup Statuses]

NoResponse == 0     \* the request times out or the connection breaks
PlanOutcome(p, i) == IF i <= p.fails THEN NoResponse ELSE p.final

\* ------------------------------------------------------------------ state
Tasks == 1..MaxTasks

NoPlan == [fails |-> 0, final |-> HTTP_OK]

IdleCall == [pc |-> "idle", plan |-> NoPlan, attempt_number |-> 0, wake |-> 0,
             reqs |-> 0, waits |-> <<>>, status |-> 0, fb |-> 0, writes |-> 0,
             result |-> "none", challenge |-> FALSE]

InitFetchCommon ==
    /\ now = 0
    /\ session = FALSE
    /\ request_times = <<>>
    /\ stats = [requests_made |-> 0, requests_failed |-> 0, items_scraped |-> 0]
    /\ pw = [driver |-> FALSE, browser |-> FALSE, context |-> FALSE,
             drivers_started |-> 0, browsers_started |-> 0, contexts_started |-> 0]
    /\ call = [t \in Tasks |-> IdleCall]
    /\ log = [dispatches |-> <<>>, calls_done |-> 0, returned |-> 0, retries |-> 0]

\* ------------------------------------------------------------ _cache_page
\* _cache_page(url, content): write_text, a failure is logged and swallowed.
CachePageSkipped(c, written) == c

CachePage(c, written) ==
    IF config.cache_dir
    THEN [exists |-> c.exists \/ written, writes |-> c.writes + 1]
    ELSE c

\* ------------------------------------------------------------ _rate_limit
\* self.request_times = [t for t in self.request_times if now - t < 60]
Pruned(rt, t) == SelectSeq(rt, LAMBDA x : t - x < RateWindow)

\* wait_time = rate_limit_delay - time_since_last, when that is positive
RateLimitWait(rt, t) ==
    IF rt # <<>> /\ t - Last(rt) < config.rate_limit_delay
    THEN config.rate_limit_delay - (t - Last(rt))
    ELSE 0

\* self.request_times.append(time.time()); response = await self.session.get(url)
Dispatch(t, c, rt) ==
    /\ request_times' = Append(rt, now)
    /\ log' = [log EXCEPT !.dispatches = Append(@, now),
                          !.retries = @ + (IF c.reqs > 0 THEN 1 ELSE 0)]
    /\ call' = [call EXCEPT ![t] = [c EXCEPT !.pc = "awaiting", !.reqs = @ + 1]]

\* One attempt of fetch_page up to its first suspension: start the session if
\* there is none, run _rate_limit, and either sleep or dispatch at once.
EnterAttempt(t, c) ==
    LET rt == Pruned(request_times, now)
        w  == RateLimitWait(rt, now)
    IN  /\ session' = TRUE
        /\ IF w > 0
           THEN /\ request_times' = rt
                /\ call' = [call EXCEPT ![t] =
                               [c EXCEPT !.pc = "rate_limit", !.wake = now + w]]
                /\ UNCHANGED log
           ELSE Dispatch(t, c, rt)

\* The end of a fetch_page call, by return or by raise.
Finish(c, res) == [c EXCEPT !.pc = "done", !.result = res]

Finished(l, res) ==
    [l EXCEPT !.calls_done = @ + 1,
              !.returned = @ + (IF res = "content" THEN 1 ELSE 0)]

\* ------------------------------------------------------------- fetch_page
\* A caller enters fetch_page(url); tenacity makes attempt 1.
StartCall(t) ==
    /\ call[t].pc \in {"idle", "done"}
    /\ calls_left[t] > 0
    /\ calls_left' = [calls_left EXCEPT ![t] = @ - 1]
    /\ \E p \in workload.plans :
          EnterAttempt(t, [IdleCall EXCEPT !.plan = p, !.attempt_number = 1])
    /\ UNCHANGED <<nonFetchVars, config, workload, now, stats, pw, cache>>

\* asyncio.sleep(wait_time) is over: append the time and dispatch.
RateLimitWake(t) ==
    /\ call[t].pc = "rate_limit"
    /\ now >= call[t].wake
    /\ Dispatch(t, call[t], request_times)
    /\ UNCHANGED <<nonFetchVars, config, workload, now, session, stats, pw, cache, calls_left>>

\* The fallback condition of fetch_page's HTTPStatusError handler.
FallsBackAlways(status) == config.enable_playwright

FallsBack(status) == config.enable_playwright /\ status \in {403, 429, 503}

\* session.get() completes: a page, an HTTP error status, or a transient error.
Respond(t) ==
    LET c == call[t]
        o == PlanOutcome(c.plan, c.reqs)
    IN
    /\ c.pc = "awaiting"
    /\ \E written \in BOOLEAN, exc \in TransientErrors :
        IF o = HTTP_OK
        THEN \* raise_for_status passes: count, cache, return response.text
             /\ stats' = [stats EXCEPT !.requests_made = @ + 1]
             /\ cache' = CachePage(cache, written)
             /\ call' = [call EXCEPT ![t] =
                            Finish([c EXCEPT !.writes = @ + CachePage(cache, written).writes - cache.writes],
                                   "content")]
             /\ log' = Finished(log, "content")
        ELSE IF o \in Statuses
        THEN \* except httpx.HTTPStatusError
             /\ stats' = [stats EXCEPT !.requests_failed = @ + 1]
             /\ cache' = cache
             /\ IF FallsBack(o)
                THEN /\ call' = [call EXCEPT ![t] =
                                    [c EXCEPT !.pc = "pw_ensure", !.status = o, !.fb = @ + 1]]
                     /\ log' = log
                ELSE IF RetryIfExceptionType("HTTPStatusError")
                        /\ ~StopAfterAttemptReached(c.attempt_number)
                THEN /\ call' = [call EXCEPT ![t] =
                                    [c EXCEPT !.pc = "backoff", !.status = o,
                                              !.waits = Append(@, WaitExponential(c.attempt_number)),
                                              !.wake = now + WaitExponential(c.attempt_number)]]
                     /\ log' = log
                ELSE /\ call' = [call EXCEPT ![t] =
                                    Finish([c EXCEPT !.status = o],
                                           IF RetryIfExceptionType("HTTPStatusError")
                                           THEN "RetryError" ELSE "HTTPStatusError")]
                     /\ log' = Finished(log, "HTTPStatusError")
        ELSE \* except Exception: count, re-raise into the retry decorator
             /\ stats' = [stats EXCEPT !.requests_failed = @ + 1]
             /\ cache' = cache
             /\ IF RetryIfExceptionType(exc) /\ ~StopAfterAttemptReached(c.attempt_number)
                THEN /\ call' = [call EXCEPT ![t] =
                                    [c EXCEPT !.pc = "backoff",
                                              !.waits = Append(@, WaitExponential(c.attempt_number)),
                                              !.wake = now + WaitExponential(c.attempt_number)]]
                     /\ log' = log
                ELSE /\ call' = [call EXCEPT ![t] =
                                    Finish(c, IF RetryIfExceptionType(exc)
                                              THEN "RetryError" ELSE exc)]
                     /\ log' = Finished(log, "RetryError")
    /\ UNCHANGED <<nonFetchVars, config, workload, now, session, request_times, pw, calls_left>>

\* tenacity's sleep is over: the next attempt runs fetch_page's body again.
BackoffWake(t) ==
    /\ call[t].pc = "backoff"
    /\ now >= call[t].wake
    /\ EnterAttempt(t, [call[t] EXCEPT !.attempt_number = @ + 1])
    /\ UNCHANGED <<nonFetchVars, config, workload, now, stats, pw, cache, calls_left>>

\* ------------------------------------------------------------- Playwright
\* _ensure_playwright up to its first await.
PwEnsure(t) ==
    LET c == call[t] IN
    /\ c.pc = "pw_ensure"
    /\ IF pw.context \/ ~config.enable_playwright
       THEN /\ call' = [call EXCEPT ![t] = [c EXCEPT !.pc = "pw_page"]]
            /\ log' = log
       ELSE IF ~workload.playwright_installed
       THEN \* ImportError -> RuntimeError
            /\ call' = [call EXCEPT ![t] = Finish(c, "RuntimeError")]
            /\ log' = Finished(log, "RuntimeError")
       ELSE /\ call' = [call EXCEPT ![t] = [c EXCEPT !.pc = "pw_start"]]
            /\ log' = log
    /\ UNCHANGED <<nonFetchVars, config, workload, now, session, request_times, stats, pw, cache,
                   calls_left>>

\* self._playwright = await async_playwright().start()
PwStart(t) ==
    /\ call[t].pc = "pw_start"
    /\ pw' = [pw EXCEPT !.driver = TRUE, !.drivers_started = @ + 1]
    /\ call' = [call EXCEPT ![t].pc = "pw_launch"]
    /\ UNCHANGED <<nonFetchVars, config, workload, now, session, request_times, stats, cache,
                   calls_left, log>>

\* self._playwright_browser = await self._playwright.chromium.launch(headless=True)
PwLaunch(t) ==
    /\ call[t].pc = "pw_launch"
    /\ pw' = [pw EXCEPT !.browser = TRUE, !.browsers_started = @ + 1]
    /\ call' = [call EXCEPT ![t].pc = "pw_context"]
    /\ UNCHANGED <<nonFetchVars, config, workload, now, session, request_times, stats, cache,
                   calls_left, log>>

\* self._playwright_context = await self._playwright_browser.new_context(...)
PwContext(t) ==
    /\ call[t].pc = "pw_context"
    /\ pw' = [pw EXCEPT !.context = TRUE, !.contexts_started = @ + 1]
    /\ call' = [call EXCEPT ![t].pc = "pw_page"]
    /\ UNCHANGED <<nonFetchVars, config, workload, now, session, request_times, stats, cache,
                   calls_left, log>>

\* _fetch_with_playwright after _ensure_playwright, up to the title check:
\* new_page, goto, wait_for_load_state. A page that is not the challenge
\* interstitial is returned (and cached) at once; an exception of the browser
\* leaves fetch_page.
PwNavigate(t) ==
    LET c == call[t] IN
    /\ c.pc = "pw_page"
    /\ \E outcome \in {"page", "challenge", "error"}, written \in BOOLEAN :
        CASE outcome = "page" ->
             /\ stats' = [stats EXCEPT !.requests_made = @ + 1]
             /\ cache' = CachePage(cache, written)
             /\ call' = [call EXCEPT ![t] =
                            Finish([c EXCEPT !.writes = @ + CachePage(cache, written).writes - cache.writes],
                                   "content")]
             /\ log' = Finished(log, "content")
          [] outcome = "challenge" ->
             /\ call' = [call EXCEPT ![t] = [c EXCEPT !.pc = "pw_challenge"]]
             /\ UNCHANGED <<stats, cache, log>>
          [] outcome = "error" ->
             /\ call' = [call EXCEPT ![t] = Finish(c, "PlaywrightError")]
             /\ log' = Finished(log, "PlaywrightError")
             /\ UNCHANGED <<stats, cache>>
    /\ UNCHANGED <<nonFetchVars, config, workload, now, session, request_times, pw, calls_left>>

\* The title contained "Just a moment": wait_for_timeout(6000), then
\* wait_for_load_state("load") with its exception swallowed. Whether or not
\* the challenge has cleared, page.content() is counted, cached and returned.
PwChallengeWait(t) ==
    LET c == call[t] IN
    /\ c.pc = "pw_challenge"
    /\ \E cleared \in BOOLEAN, written \in BOOLEAN :
          /\ stats' = [stats EXCEPT !.requests_made = @ + 1]
          /\ cache' = CachePage(cache, written)
          /\ call' = [call EXCEPT ![t] =
                         Finish([c EXCEPT !.writes = @ + CachePage(cache, written).writes - cache.writes,
                                          !.challenge = ~cleared],
                                "content")]
          /\ log' = Finished(log, "content")
    /\ UNCHANGED <<nonFetchVars, config, workload, now, session, request_times, pw, calls_left>>

\* One second passes.
Tick ==
    /\ now < MaxTime
    /\ now' = now + 1
    /\ UNCHANGED <<nonFetchVars, config, workload, session, request_times, stats, pw, cache,
                   call, calls_left, log>>

NextFetch ==
    \/ \E t \in Tasks : StartCall(t)
    \/ \E t \in Tasks : RateLimitWake(t)
    \/ \E t \in Tasks : Respond(t)
    \/ \E t \in Tasks : BackoffWake(t)
    \/ \E t \in Tasks : PwEnsure(t)
    \/ \E t \in Tasks : PwStart(t)
    \/ \E t \in Tasks : PwLaunch(t)
    \/ \E t \in Tasks : PwContext(t)
    \/ \E t \in Tasks : PwNavigate(t)
    \/ \E t \in Tasks : PwChallengeWait(t)
    \/ Tick

\* ---------------------------------------------------------- close_session
NoClosing == [pc |-> "open", calls |-> 0, sessions_closed |-> 0,
              contexts_closed |-> 0, browsers_closed |-> 0, drivers_stopped |-> 0]

\* close_session has not been called.
SessionOpen == closing = NoClosing

\* The body of `async with scraper:` is left: every fetch_page call was made
\* and is over, or a call raised and the exception leaves the body.
BodyLeft ==
    /\ \A t \in Tasks : call[t].pc \in {"idle", "done"}
    /\ \/ \A t \in Tasks : calls_left[t] = 0
       \/ \E t \in Tasks : call[t].pc = "done" /\ call[t].result # "content"

\* __aexit__ or the owner calls close_session, up to its first await: the
\* session is closed if there is one, otherwise _close_playwright runs.
CloseSession ==
    /\ closing.pc \in {"open", "closed"}
    /\ closing.calls < MaxCloses
    /\ BodyLeft
    /\ calls_left' = [t \in Tasks |-> 0]
    /\ closing' = [closing EXCEPT !.pc = IF session THEN "aclose" ELSE "context"]
    /\ UNCHANGED <<orchVars, miVars, strategyVars, config, workload, now, session,
                   request_times, stats, pw, cache, call, log>>

\* await self.session.aclose(); self.session = None
SessionAclose ==
    /\ closing.pc = "aclose"
    /\ session' = FALSE
    /\ closing' = [closing EXCEPT !.pc = "context", !.sessions_closed = @ + 1]
    /\ UNCHANGED <<orchVars, miVars, strategyVars, config, workload, now,
                   request_times, stats, pw, cache, call, calls_left, log>>

\* _close_playwright: if self._playwright_context: close it, set it to None
ClosePlaywrightContext ==
    /\ closing.pc = "context"
    /\ pw' = [pw EXCEPT !.context = FALSE]
    /\ closing' = [closing EXCEPT !.pc = "browser",
                      !.contexts_closed = @ + (IF pw.context THEN 1 ELSE 0)]
    /\ UNCHANGED <<orchVars, miVars, strategyVars, config, workload, now, session,
                   request_times, stats, cache, call, calls_left, log>>

\* _close_playwright: if self._playwright_browser: close it, set it to None
ClosePlaywrightBrowser ==
    /\ closing.pc = "browser"
    /\ pw' = [pw EXCEPT !.browser = FALSE]
    /\ closing' = [closing EXCEPT !.pc = "driver",
                      !.browsers_closed = @ + (IF pw.browser THEN 1 ELSE 0)]
    /\ UNCHANGED <<orchVars, miVars, strategyVars, config, workload, now, session,
                   request_times, stats, cache, call, calls_left, log>>

\* _close_playwright: if self._playwright: stop it, set it to None;
\* close_session returns.
StopPlaywright ==
    /\ closing.pc = "driver"
    /\ pw' = [pw EXCEPT !.driver = FALSE]
    /\ closing' = [closing EXCEPT !.pc = "closed", !.calls = @ + 1,
                      !.drivers_stopped = @ + (IF pw.driver THEN 1 ELSE 0)]
    /\ UNCHANGED <<orchVars, miVars, strategyVars, config, workload, now, session,
                   request_times, stats, cache, call, calls_left, log>>

NextSession ==
    \/ NextFetch
    \/ CloseSession
    \/ SessionAclose
    \/ ClosePlaywrightContext
    \/ ClosePlaywrightBrowser
    \/ StopPlaywright

\* ------------------------------------------------- scrape_multiple_states
Codes == {"CA", "NY"}

\* The tasks asyncio.gather created, one per submitted code.
Units == DOMAIN unit

NoUnits == <<>>

\* No scrape_multiple_states call is in progress.
OrchIdle ==
    /\ state_codes = <<>>
    /\ max_concurrent = 0
    /\ semaphore = 0
    /\ unit = NoUnits
    /\ completed = <<>>
    /\ gathered = [pc |-> "idle", mapping |-> <<>>]

\* max_concurrent = max_concurrent or self.config.max_concurrent_requests
ConcurrencyCapUnbounded == Len(state_codes) + 1

ConcurrencyCap ==
    IF max_concurrent # 0 THEN max_concurrent ELSE config.max_concurrent_requests

\* The statutes unit i's scrape_state returns when it collects n of them.
Statutes(i, n) == [k \in 1..n |-> [state |-> state_codes[i], unit |-> i, k |-> k]]

\* semaphore = asyncio.Semaphore(max_concurrent); asyncio.gather creates one
\* scrape_with_semaphore task per submitted code.
ScrapeMultipleStates ==
    /\ gathered.pc = "called"
    /\ semaphore' = ConcurrencyCap
    /\ unit' = [i \in 1..Len(state_codes) |-> [pc |-> "pending", raised |-> FALSE, statutes |-> <<>>]]
    /\ gathered' = [gathered EXCEPT !.pc = "gathering"]
    /\ UNCHANGED <<fetchVars, miVars, strategyVars, sessionVars, state_codes, max_concurrent, completed>>

\* async with semaphore: a permit is free; scrape_state(state_code) starts.
Acquire(i) ==
    /\ gathered.pc \in {"gathering", "raised"}
    /\ unit[i].pc = "pending"
    /\ semaphore > 0
    /\ semaphore' = semaphore - 1
    /\ unit' = [unit EXCEPT ![i].pc = "running"]
    /\ UNCHANGED <<fetchVars, miVars, strategyVars, sessionVars, state_codes, max_concurrent, completed, gathered>>

\* scrape_state returns its statutes: return state_code, statutes; the
\* permit is released on leaving the async with block.
ScrapeStateReturns(i) ==
    /\ unit[i].pc = "running"
    /\ \E n \in 0..MaxStatutes :
          unit' = [unit EXCEPT ![i] = [pc |-> "done", raised |-> FALSE,
                                       statutes |-> Statutes(i, n)]]
    /\ semaphore' = semaphore + 1
    /\ completed' = Append(completed, i)
    /\ UNCHANGED <<fetchVars, miVars, strategyVars, sessionVars, state_codes, max_concurrent, gathered>>

\* A version of the handler that lets the exception leave the task: gather
\* re-raises it to the caller of scrape_multiple_states at once.
ScrapeStateRaisesUncaught(i) ==
    /\ unit[i].pc = "running"
    /\ unit' = [unit EXCEPT ![i] = [pc |-> "done", raised |-> TRUE, statutes |-> <<>>]]
    /\ semaphore' = semaphore + 1
    /\ completed' = Append(completed, i)
    /\ gathered' = [gathered EXCEPT !.pc = "raised"]
    /\ UNCHANGED <<fetchVars, miVars, strategyVars, sessionVars, state_codes, max_concurrent>>

\* A version of the handler that keeps the permit when scrape_state raises.
ScrapeStateRaisesHolding(i) ==
    /\ unit[i].pc = "running"
    /\ unit' = [unit EXCEPT ![i] = [pc |-> "done", raised |-> TRUE, statutes |-> <<>>]]
    /\ completed' = Append(completed, i)
    /\ UNCHANGED <<fetchVars, miVars, strategyVars, sessionVars, state_codes, max_concurrent,
                   semaphore, gathered>>

\* scrape_state raises: except Exception logs and returns state_code, [].
ScrapeStateRaises(i) ==
    /\ unit[i].pc = "running"
    /\ unit' = [unit EXCEPT ![i] = [pc |-> "done", raised |-> TRUE, statutes |-> <<>>]]
    /\ semaphore' = semaphore + 1
    /\ completed' = Append(completed, i)
    /\ UNCHANGED <<fetchVars, miVars, strategyVars, sessionVars, state_codes, max_concurrent, gathered>>

\* dict(pairs): a later pair replaces an earlier one with the same key.
RECURSIVE DictOf(_)
DictOf(pairs) ==
    IF pairs = <<>>
    THEN <<>>
    ELSE LET d == DictOf(SubSeq(pairs, 1, Len(pairs) - 1))
             p == Last(pairs)
         IN  [c \in DOMAIN d \cup {p[1]} |-> IF c = p[1] THEN p[2] ELSE d[c]]

\* What each task returned, in the order the tasks finished.
ResultsAsCompleted ==
    [j \in 1..Len(completed) |->
        <<state_codes[completed[j]], unit[completed[j]].statutes>>]

\* asyncio.gather's result list: what each task returned, in submission order.
GatherResults == [i \in Units |-> <<state_codes[i], unit[i].statutes>>]

\* All tasks are done: return dict(results).
Gather ==
    /\ gathered.pc = "gathering"
    /\ \A i \in Units : unit[i].pc = "done"
    /\ gathered' = [pc |-> "returned", mapping |-> DictOf(GatherResults)]
    /\ UNCHANGED <<fetchVars, miVars, strategyVars, sessionVars, state_codes, max_concurrent, semaphore, unit, completed>>

NextOrchestrator ==
    \/ ScrapeMultipleStates
    \/ \E i \in Units : Acquire(i)
    \/ \E i \in Units : ScrapeStateReturns(i)
    \/ \E i \in Units : ScrapeStateRaises(i)
    \/ Gather

\* ------------------------------ MichiganLegislatureScraper.scrape_state
STATE_CODE == "MI"

\* urljoin(BASE_URL, CHAPTER_INDEX_PATH); the other URLs are 1..MaxPages
IndexUrl == 0
Urls == 0..MaxPages

SampleCap == 3     \* entries[: min(3, len(entries))]

\* str.upper() on the codes used here
Upper(code) ==
    CASE code = "mi" -> "MI"
      [] code = "ca" -> "CA"
      [] code = "oh" -> "OH"
      [] OTHER -> code

\* The rows of a listing table, in page order: no URL twice in one table.
LinkLists ==
    UNION {{l \in [1..n -> Urls] : \A i, j \in 1..n : i # j => l[i] # l[j]} :
           n \in 0..MaxLinks}

\* A page has a table.table of links (listing), or parses to a statute, or
\* parses to nothing (no <main>, or an empty body).
Pages ==
    [kind : {"listing"}, links : LinkLists]
        \cup [kind : {"statute", "empty"}, links : {<<>>}]

Sites == {s \in [Urls -> Pages] : s[IndexUrl].kind = "listing"}

NoArgs == [state_code |-> STATE_CODE, max_statutes |-> 0, sample_mode |-> FALSE,
           max_statutes_per_chapter |-> 0]

\* No scrape_state call is in progress.
WalkIdle ==
    /\ site = <<>>
    /\ args = NoArgs
    /\ visited_urls = {}
    /\ statutes = <<>>
    /\ stack = <<>>
    /\ fetched = <<>>
    /\ walk = [pc |-> "idle", result |-> <<>>]

\* _limit_reached: bool(max_statutes and len(results) >= max_statutes)
LimitReached(results, max_statutes) ==
    max_statutes # 0 /\ Len(results) >= max_statutes

\* _parse_listing_table: the rows of the page's table.table, [] without one
ParseListingTable(url) ==
    IF site[url].kind = "listing" THEN site[url].links ELSE <<>>

Take(s, n) == SubSeq(s, 1, Min(n, Len(s)))

\* _scrape_listing's entries: the table rows, cut to 3 in sample mode and to
\* per_listing_limit when one is given (0 stands for None)
ListingEntries(url, per_listing_limit) ==
    LET entries == ParseListingTable(url)
        sampled == IF args.sample_mode /\ entries # <<>>
                   THEN Take(entries, SampleCap) ELSE entries
    IN  IF per_listing_limit # 0 THEN Take(sampled, per_listing_limit) ELSE sampled

\* chapter_limit in scrape_state's loop (0 stands for None)
ChapterLimit ==
    IF args.max_statutes_per_chapter # 0
    THEN Min(args.max_statutes_per_chapter,
             IF args.max_statutes # 0
             THEN args.max_statutes - Len(statutes)
             ELSE args.max_statutes_per_chapter)
    ELSE 0

\* scrape_state up to its loop: check the code, reset the visited set, fetch
\* and parse the chapter index. The index URL is not put in the visited set.
VisitedAtStartWithIndex == {IndexUrl}

VisitedAtStart == {}

MIScrapeState ==
    /\ walk.pc = "called"
    /\ IF Upper(args.state_code) # STATE_CODE
       THEN /\ walk' = [walk EXCEPT !.pc = "raised"]
            /\ UNCHANGED <<visited_urls, statutes, stack, fetched>>
       ELSE /\ visited_urls' = VisitedAtStart
            /\ statutes' = <<>>
            /\ fetched' = [fetched EXCEPT ![IndexUrl] = @ + 1]
            /\ \E ok \in BOOLEAN :
                  IF ok
                  THEN /\ stack' = <<[url |-> IndexUrl,
                                      entries |-> ParseListingTable(IndexUrl),
                                      followed |-> 0, base |-> 0]>>
                       /\ walk' = [walk EXCEPT !.pc = "walking"]
                  ELSE /\ stack' = <<>>
                       /\ walk' = [walk EXCEPT !.pc = "raised"]
    /\ UNCHANGED <<fetchVars, orchVars, strategyVars, sessionVars, site, args>>

\* History: the loop on top of `frames` has followed one more of its links to
\* a page that was fetched.
Followed(frames) == [frames EXCEPT ![Len(frames)].followed = @ + 1]

\* The call _scrape_listing(url, ..., per_listing_limit) made from the loop
\* whose frame is on top of `rest`, up to the start of its own loop.
ScrapeListing(url, per_listing_limit, rest) ==
    IF LimitReached(statutes, args.max_statutes) \/ url \in visited_urls
    THEN /\ stack' = rest
         /\ UNCHANGED <<visited_urls, statutes, fetched, walk>>
    ELSE /\ visited_urls' = visited_urls \cup {url}
         /\ fetched' = [fetched EXCEPT ![url] = @ + 1]
         /\ \E ok \in BOOLEAN :
               IF ~ok
               THEN \* fetch_page raises; nothing on the way up catches it
                    /\ stack' = <<>>
                    /\ walk' = [walk EXCEPT !.pc = "raised"]
                    /\ UNCHANGED statutes
               ELSE IF site[url].kind = "listing"
               THEN /\ stack' = Append(Followed(rest),
                          [url |-> url, entries |-> ListingEntries(url, per_listing_limit),
                           followed |-> 0, base |-> 0])
                    /\ UNCHANGED <<statutes, walk>>
               ELSE \* _parse_statute_page: a statute, or None
                    /\ stack' = Followed(rest)
                    /\ statutes' = IF site[url].kind = "statute"
                                   THEN Append(statutes, url) ELSE statutes
                    /\ UNCHANGED walk

\* A loop that does not move on to its next entry.
Unadvanced == stack

\* The stack with the first entry of its top frame consumed. History: `base`
\* is the number of statutes collected when that entry is taken up.
Advanced ==
    [stack EXCEPT ![Len(stack)].entries = Tail(@),
                  ![Len(stack)].base = Len(statutes)]

\* scrape_state's loop over the chapters: the next chapter.
MIChapter ==
    /\ walk.pc = "walking"
    /\ Len(stack) = 1
    /\ stack[1].entries # <<>>
    /\ ~LimitReached(statutes, args.max_statutes)
    /\ ScrapeListing(Head(stack[1].entries), ChapterLimit, Advanced)
    /\ UNCHANGED <<fetchVars, orchVars, strategyVars, sessionVars, site, args>>

\* _scrape_listing's loop over the entries of a listing page: the next entry.
MIEntry ==
    /\ walk.pc = "walking"
    /\ Len(stack) > 1
    /\ Last(stack).entries # <<>>
    /\ ~LimitReached(statutes, args.max_statutes)
    /\ ScrapeListing(Head(Last(stack).entries), 0, Advanced)
    /\ UNCHANGED <<fetchVars, orchVars, strategyVars, sessionVars, site, args>>

\* _scrape_listing's loop ends (no entry left, or the limit is reached): return.
MIReturn ==
    /\ walk.pc = "walking"
    /\ Len(stack) > 1
    /\ Last(stack).entries = <<>> \/ LimitReached(statutes, args.max_statutes)
    /\ stack' = SubSeq(stack, 1, Len(stack) - 1)
    /\ UNCHANGED <<fetchVars, orchVars, strategyVars, sessionVars, site, args, visited_urls, statutes, fetched, walk>>

\* scrape_state's loop ends: record items_scraped and return the statutes.
MIFinish ==
    /\ walk.pc = "walking"
    /\ Len(stack) = 1
    /\ stack[1].entries = <<>> \/ LimitReached(statutes, args.max_statutes)
    /\ stats' = [stats EXCEPT !.items_scraped = Len(statutes)]
    /\ stack' = <<>>
    /\ walk' = [pc |-> "returned", result |-> statutes]
    /\ UNCHANGED <<config, workload, now, session, request_times, pw, cache, call,
                   calls_left, log, orchVars, strategyVars, sessionVars, site, args, visited_urls,
                   statutes, fetched>>

NextMichigan ==
    \/ MIScrapeState
    \/ MIChapter
    \/ MIEntry
    \/ MIReturn
    \/ MIFinish

\* ------------------------------------------------ CourtListener scrapers
\* CourtListenerSCOTUSScraper.scrape_cases_by_date_range (with iter_cases) and
\* CourtListenerStateCourtsScraper.scrape_court_cases drive the same
\* cursor-paginated search API through their own fetch_api.
Scrapers == {"scotus", "state_courts"}

RateLimited == 429        \* if response.status_code == 429
Cooldown == 10            \* await asyncio.sleep(10)
ApiRateLimitDelay == 2    \* ScraperConfig(rate_limit_delay=2.0, ...)
NoGap == -1               \* no request before this one

\* What the API answers to one GET: the page, a throttle, or an error
\* raise_for_status() raises on.
ApiStatuses == {HTTP_OK, RateLimited, 500}

\* A search result has a case name (it parses to a case) or has none.
ResultKinds == {"named", "unnamed"}

ResultLists == UNION {[1..n -> ResultKinds] : n \in 0..MaxResults}

RECURSIVE SumLen(_)
SumLen(lists) ==
    IF lists = <<>> THEN 0 ELSE Len(Head(lists)) + SumLen(Tail(lists))

\* The pages of one search, chained by "next": page p links to page p + 1 and
\* the last page has "next": null.
ApiPages ==
    {p \in UNION {[1..n -> ResultLists] : n \in 1..MaxApiPages} :
        SumLen(p) <= MaxResults}

\* response_data.get("next"), 0 for None
NextUrl(page) == IF page < Len(api.pages) THEN page + 1 ELSE 0

NoApi == [pages |-> <<>>, absolute_url |-> FALSE]

NoCl == [pc |-> "idle", next_url |-> 0, page |-> 1, data |-> 0, i |-> 0,
         target |-> "page", call_requests |-> 0]

\* `since` is the time since the last request was issued: the latency of its
\* response and the sleeps made after it, counted up to rate_limit_delay;
\* `gap` is what `since` was when the last request was issued.
NoHttp == [requests |-> 0, throttled |-> 0, requests_made |-> 0,
           requests_failed |-> 0, late |-> 0, since |-> 0, gap |-> NoGap]

\* No CourtListener scrape is in progress.
ClIdle ==
    /\ api = NoApi
    /\ cl_args = [scraper |-> "scotus", max_cases |-> 0]
    /\ cases = <<>>
    /\ cl = NoCl
    /\ http = NoHttp

\* if max_cases and len(cases) >= max_cases, with n = len(cases)
MaxCasesExceeded(n, max_cases) == max_cases # 0 /\ n > max_cases

MaxCasesReached(n, max_cases) == max_cases # 0 /\ n >= max_cases

\* The entry of either scraper, up to its `while next_url` loop.
ScrapeCases ==
    /\ cl.pc = "called"
    /\ cases' = <<>>
    /\ cl' = [cl EXCEPT !.pc = "loop", !.next_url = 1, !.page = 1]
    /\ UNCHANGED <<fetchVars, sessionVars, orchVars, miVars, laterVars, jxVars, vsVars, api, cl_args, http>>

\* while next_url: ... fetch_api(next_url, params if page == 1 else None)
ClLoop ==
    /\ cl.pc = "loop"
    /\ cl' = IF cl.next_url = 0
             THEN [cl EXCEPT !.pc = "returned"]
             ELSE [cl EXCEPT !.pc = "get", !.target = "page", !.call_requests = 0]
    /\ UNCHANGED <<fetchVars, sessionVars, orchVars, miVars, laterVars, jxVars, vsVars, api, cl_args, cases, http>>

\* The loop after fetch_api returned for the page at next_url: no data or an
\* empty results array ends the loop.
AfterPage(ok) ==
    IF ~ok \/ api.pages[cl.next_url] = <<>>
    THEN [cl EXCEPT !.pc = "returned"]
    ELSE [cl EXCEPT !.pc = "results", !.data = cl.next_url, !.i = 1]

\* One result parsed: a case is appended and the budget is checked. The
\* state-courts loop checks the budget after every result, the SCOTUS loop
\* after every case iter_cases yields.
AfterResult(named) ==
    LET appended == IF named THEN Append(cases, <<cl.data, cl.i>>) ELSE cases
        checked == named \/ cl_args.scraper = "state_courts"
    IN  /\ cases' = appended
        /\ cl' = IF checked /\ MaxCasesReached(Len(appended), cl_args.max_cases)
                 THEN [cl EXCEPT !.pc = "returned"]
                 ELSE [cl EXCEPT !.pc = "results", !.i = cl.i + 1]

IsNamed == api.pages[cl.data][cl.i] = "named"

\* fetch_api: one GET. A 429 sleeps and calls fetch_api again, whatever the
\* number of 429s before it; another error status returns None; a 200
\* returns the JSON.
FetchApiGet ==
    /\ cl.pc = "get"
    /\ \E status \in ApiStatuses, latency \in 0..MaxLatency :
          /\ status = RateLimited => http.throttled < Max429
          /\ status = 500 => http.requests_failed < MaxApiFailures
          /\ http' = [http EXCEPT
                 !.requests = @ + 1,
                 !.gap = IF http.requests = 0 THEN NoGap ELSE http.since,
                 !.since = Min(latency, config.rate_limit_delay),
                 !.throttled = IF status = RateLimited THEN @ + 1 ELSE @,
                 !.requests_made = IF status = HTTP_OK THEN @ + 1 ELSE @,
                 !.requests_failed = IF status = 500 THEN @ + 1 ELSE @,
                 !.late = IF MaxCasesReached(Len(cases), cl_args.max_cases)
                          THEN @ + 1 ELSE @]
          /\ IF status = RateLimited
             THEN /\ cl' = [cl EXCEPT !.pc = "cooldown",
                                      !.call_requests = @ + 1]
                  /\ UNCHANGED cases
             ELSE IF cl.target = "page"
             THEN /\ cl' = [AfterPage(status = HTTP_OK) EXCEPT
                                      !.call_requests = cl.call_requests + 1]
                  /\ UNCHANGED cases
             ELSE IF status = HTTP_OK
             THEN AfterResult(IsNamed)
             ELSE /\ cl' = [cl EXCEPT !.pc = "results", !.i = cl.i + 1]
                  /\ UNCHANGED cases
    /\ UNCHANGED <<fetchVars, sessionVars, orchVars, miVars, laterVars, jxVars, vsVars, api, cl_args>>

\* await asyncio.sleep(10); return await self.fetch_api(url, params)
FetchApiCooldown ==
    /\ cl.pc = "cooldown"
    /\ cl' = [cl EXCEPT !.pc = "get"]
    /\ http' = [http EXCEPT !.since = Min(@ + Cooldown, config.rate_limit_delay)]
    /\ UNCHANGED <<fetchVars, sessionVars, orchVars, miVars, laterVars, jxVars, vsVars, api, cl_args, cases>>

\* for result in results: the SCOTUS scraper fetches the opinion of a result
\* that has an "absolute_url"; otherwise the result itself is parsed.
ClResult ==
    /\ cl.pc = "results"
    /\ cl.i <= Len(api.pages[cl.data])
    /\ IF cl_args.scraper = "scotus" /\ api.absolute_url
       THEN /\ cl' = [cl EXCEPT !.pc = "get", !.target = "detail",
                                !.call_requests = 0]
            /\ UNCHANGED cases
       ELSE AfterResult(IsNamed)
    /\ UNCHANGED <<fetchVars, sessionVars, orchVars, miVars, laterVars, jxVars, vsVars, api, cl_args, http>>

\* next_url = data.get("next"); page += 1; await asyncio.sleep(rate_limit_delay)
ClNextPage ==
    /\ cl.pc = "results"
    /\ cl.i > Len(api.pages[cl.data])
    /\ cl' = [cl EXCEPT !.pc = "loop", !.next_url = NextUrl(cl.data),
                        !.page = @ + 1]
    /\ http' = [http EXCEPT !.since = Min(@ + config.rate_limit_delay,
                                          config.rate_limit_delay)]
    /\ UNCHANGED <<fetchVars, sessionVars, orchVars, miVars, laterVars, jxVars, vsVars, api, cl_args, cases>>

NextCourtListener ==
    \/ ScrapeCases
    \/ ClLoop
    \/ FetchApiGet
    \/ FetchApiCooldown
    \/ ClResult
    \/ ClNextPage

\* ------------------------------------------------ JustiaScraper.scrape_state
\* The codes of US_STATES used here; "ZZ" is not one of them.
US_STATES == {"CA", "MI", "NY", "OH"}

\* What fetching and parsing one statute page gives: a statute, or None when
\* scrape_statute caught an exception.
LeafKinds == {"ok", "fail"}

LeafLists == UNION {[1..n -> LeafKinds] : n \in 0..MaxSectionLinks}

\* A code section of the index page: its listing page can be fetched (ok) and
\* then links to statute pages, or fetching it raises.
Sections ==
    [ok : {TRUE}, links : LeafLists] \cup [ok : {FALSE}, links : {<<>>}]

RECURSIVE LinkCount(_)
LinkCount(sections) ==
    IF sections = <<>> THEN 0
    ELSE Len(Head(sections).links) + LinkCount(Tail(sections))

JustiaSites ==
    [index_ok : BOOLEAN,
     sections : {l \in UNION {[1..n -> Sections] : n \in 0..MaxSections} :
                    LinkCount(l) <= MaxSectionLinks}]

NoJx == [pc |-> "idle", statutes |-> <<>>, code_statutes |-> <<>>, c |-> 0,
         l |-> 0, result |-> <<>>]

\* No Justia scrape_state call is in progress.
JxIdle ==
    /\ jx_site = [index_ok |-> TRUE, sections |-> <<>>]
    /\ jx_args = [state_code |-> "CA", max_statutes |-> 0, sample_mode |-> FALSE]
    /\ jx = NoJx
    /\ jx_fetched = [fetches |-> 0, late |-> 0, calls |-> 0, returned |-> 0]

\* if max_statutes and len(statutes) >= max_statutes, with n = len(statutes)
MaxStatutesReached(n) == jx_args.max_statutes # 0 /\ n >= jx_args.max_statutes

\* The records scrape_state and the section scrape it is in hold so far.
Collected == Len(jx.statutes) + Len(jx.code_statutes)

\* One fetch_page call, counted; `late` counts those made with the budget
\* already collected.
JxFetch ==
    jx_fetched' = [jx_fetched EXCEPT
                      !.fetches = @ + 1,
                      !.late = @ + (IF MaxStatutesReached(Collected) THEN 1 ELSE 0)]

\* statutes[:max_statutes]
Untruncated(list, n) == list

Truncated(list, n) == Take(list, n)

\* scrape_state up to its loop: upper-case and check the code, fetch the index
\* page; an exception is logged and raised again.
JxScrapeState ==
    /\ jx.pc = "called"
    /\ IF Upper(jx_args.state_code) \notin US_STATES
       THEN /\ jx' = [jx EXCEPT !.pc = "raised"]
            /\ UNCHANGED jx_fetched
       ELSE /\ JxFetch
            /\ jx' = IF jx_site.index_ok
                     THEN [jx EXCEPT !.pc = "sections", !.c = 1]
                     ELSE [jx EXCEPT !.pc = "raised"]
    /\ UNCHANGED <<fetchVars, sessionVars, orchVars, miVars, laterVars, clVars, vsVars, jx_site, jx_args>>

\* One round of `for code_name, code_url in code_links.items()`, up to the
\* loop over the section's statute links: _scrape_code_section and
\* _scrape_code_section_sample fetch the section page; a failure gives [].
JxSection ==
    /\ jx.pc = "sections"
    /\ jx.c <= Len(jx_site.sections)
    /\ JxFetch
    /\ jx' = [jx EXCEPT !.pc = "links", !.l = 1, !.code_statutes = <<>>]
    /\ UNCHANGED <<fetchVars, sessionVars, orchVars, miVars, laterVars, clVars, vsVars, jx_site, jx_args>>

\* The statute links scraped in the section: all of them, the first one in
\* sample mode.
LinksScraped ==
    LET links == jx_site.sections[jx.c].links
    IN  IF jx_args.sample_mode THEN Take(links, 1) ELSE links

\* scrape_statute on the next link: the record carries the upper-cased code.
JxStatute ==
    /\ jx.pc = "links"
    /\ jx.l <= Len(LinksScraped)
    /\ JxFetch
    /\ jx' = [jx EXCEPT
           !.l = @ + 1,
           !.code_statutes =
               IF LinksScraped[jx.l] = "ok"
               THEN Append(@, [state |-> Upper(jx_args.state_code),
                               section |-> jx.c, link |-> jx.l])
               ELSE @]
    /\ UNCHANGED <<fetchVars, sessionVars, orchVars, miVars, laterVars, clVars, vsVars, jx_site, jx_args>>

\* The section is done: statutes.extend(...), then the max_statutes check
\* cuts the list and leaves the loop.
JxExtend ==
    /\ jx.pc = "links"
    /\ jx.l > Len(LinksScraped)
    /\ LET extended == jx.statutes \o jx.code_statutes
       IN  jx' = IF MaxStatutesReached(Len(extended))
                 THEN [jx EXCEPT !.pc = "finish", !.code_statutes = <<>>,
                          !.statutes = Truncated(extended, jx_args.max_statutes)]
                 ELSE [jx EXCEPT !.pc = "sections", !.c = @ + 1,
                          !.code_statutes = <<>>, !.statutes = extended]
    /\ UNCHANGED <<fetchVars, sessionVars, orchVars, miVars, laterVars, clVars, vsVars, jx_site, jx_args,
                   jx_fetched>>

\* The loop is over: record items_scraped and return the statutes.
JxFinish ==
    /\ \/ jx.pc = "finish"
       \/ jx.pc = "sections" /\ jx.c > Len(jx_site.sections)
    /\ stats' = [stats EXCEPT !.items_scraped = Len(jx.statutes)]
    /\ jx' = [jx EXCEPT !.pc = "returned", !.result = jx.statutes]
    /\ jx_fetched' = [jx_fetched EXCEPT !.returned = @ + Len(jx.statutes)]
    /\ UNCHANGED <<config, workload, now, session, request_times, pw, cache, call,
                   calls_left, log, sessionVars, orchVars, miVars, laterVars, clVars, vsVars,
                   jx_site, jx_args>>

\* The arguments of a scrape_state call: max_statutes is 0 for None.
JxArgs == [state_code : {"CA", "ca", "ZZ"},
           max_statutes : 0..MaxJustiaBudget,
           sample_mode : BOOLEAN]

\* scrape_state is called again on the same scraper once the call before it
\* has returned or raised: self.stats is the one made by __init__.
JxScrapeAgain ==
    /\ jx.pc \in {"returned", "raised"}
    /\ jx_fetched.calls < MaxJxCalls
    /\ jx_args' \in JxArgs
    /\ jx' = [NoJx EXCEPT !.pc = "called"]
    /\ jx_fetched' = [jx_fetched EXCEPT !.calls = @ + 1]
    /\ UNCHANGED <<fetchVars, sessionVars, orchVars, miVars, laterVars, clVars, vsVars, jx_site>>

NextJustia ==
    \/ JxScrapeState
    \/ JxSection
    \/ JxStatute
    \/ JxExtend
    \/ JxFinish

\* ------------------------------------------------ BaseScraper.validate_statute
\* validate_statute reads only whether a field is empty and how long it is: a
\* string field is held as its length, and None as NoneField.
NoneField == -1

StateCodeLength == 2      \* len(statute.state) != 2
MinTextLength == 50       \* len(statute.full_text) < 50

FieldNames == {"state", "statute_number", "title", "full_text", "source_url"}

ScrapedStatutes ==
    [state : NoneField..MaxStateLen,
     statute_number : NoneField..MaxFieldLen,
     title : NoneField..MaxFieldLen,
     full_text : NoneField..MaxTextLen,
     source_url : NoneField..MaxFieldLen]

NoStatute == [f \in FieldNames |-> NoneField]

\* No validate_statute call is in progress.
VsIdle ==
    /\ statute = NoStatute
    /\ errors = [pc |-> "idle", list |-> <<>>]

\* `not field`: None or the empty string
Falsy(field) == field = NoneField \/ field = 0

\* not statute.full_text or len(statute.full_text) < 50
TextAtMostMin(full_text) == Falsy(full_text) \/ full_text <= MinTextLength

TextTooShort(full_text) == Falsy(full_text) \/ full_text < MinTextLength

\* errors.append(message) under its condition
ErrorIf(condition, message) == IF condition THEN <<message>> ELSE <<>>

validate_statute(s) ==
    ErrorIf(Falsy(s.state) \/ s.state # StateCodeLength,
            "Invalid or missing state code")
    \o ErrorIf(Falsy(s.statute_number), "Missing statute number")
    \o ErrorIf(Falsy(s.title), "Missing statute title")
    \o ErrorIf(TextTooShort(s.full_text), "Statute text too short or missing")
    \o ErrorIf(Falsy(s.source_url), "Missing source URL")

\* A call of validate_statute on the statute at hand.
ValidateStatute ==
    /\ errors.pc = "called"
    /\ errors' = [pc |-> "returned", list |-> validate_statute(statute)]
    /\ UNCHANGED <<fetchVars, sessionVars, orchVars, miVars, laterVars, clVars, jxVars, statute>>

NextValidate == ValidateStatute

\* ---------------------------- WisconsinLegislatureScraper.scrape_state
WiSampleCap == 5          \* chapter_slugs[: min(5, len(chapter_slugs))]

WiCalls == 1..MaxWiCalls

\* What _scrape_section does with a section link: it returns a statute,
\* returns None, or raises.
WiSectionKinds == {"statute", "none", "error"}

\* A chapter page: whether fetch_page returns it, and its section links.
WiChapters ==
    {ch \in [fetch_ok : BOOLEAN,
             links : UNION {[1..n -> WiSectionKinds] : n \in 0..MaxWiSections}] :
        ~ch.fetch_ok => ch.links = <<>>}

\* The chapters the index page lists: there is at least one.
WiSites == UNION {[1..n -> WiChapters] : n \in 1..MaxWiChapters}

\* max_statutes and max_chapters: None, or a number.
WiBudgets == {NoneField} \cup 0..MaxWiBudget

NoWiCall == [pc |-> "idle", max_statutes |-> NoneField, sample_mode |-> FALSE,
             max_chapters |-> NoneField, slugs |-> 0, ch |-> 0, links |-> 0,
             sec |-> 0, statutes |-> 0]

NoWiFetched == [index |-> 0, returned |-> 0]

\* No Wisconsin scrape is in progress.
WiIdle ==
    /\ wi_site = <<>>
    /\ chapter_slugs = 0
    /\ wi = [c \in WiCalls |-> NoWiCall]
    /\ wi_fetched = NoWiFetched

\* bool(max_statutes and len(results) >= max_statutes)
WiLimitReachedAtZero(n, max_statutes) ==
    max_statutes # NoneField /\ n >= max_statutes

WiLimitReached(n, max_statutes) ==
    max_statutes # NoneField /\ max_statutes # 0 /\ n >= max_statutes

\* if sample_mode: [: min(5, len)]  elif max_chapters: [:max_chapters]
ChapterCut(n, sample_mode, max_chapters) ==
    IF sample_mode THEN Min(WiSampleCap, n)
    ELSE IF max_chapters # NoneField /\ max_chapters # 0
    THEN Min(max_chapters, n)
    ELSE n

\* scrape_state up to the first await of _get_chapter_slugs: a stored list
\* is returned at once, otherwise the index page is requested.
WIScrapeState(c) ==
    /\ wi[c].pc = "idle"
    /\ \E ms \in WiBudgets, sm \in BOOLEAN, mc \in {NoneField, 0, 1} :
          LET started == [NoWiCall EXCEPT !.max_statutes = ms,
                                          !.sample_mode = sm,
                                          !.max_chapters = mc]
          IN  wi' = [wi EXCEPT ![c] =
                  IF chapter_slugs # 0
                  THEN [started EXCEPT !.pc = "chapters", !.ch = 1,
                            !.slugs = ChapterCut(chapter_slugs, sm, mc)]
                  ELSE [started EXCEPT !.pc = "index"]]
    /\ UNCHANGED <<fetchVars, sessionVars, orchVars, miVars, clVars, jxVars,
                   vsVars, courtsVars, routerVars, wi_site, chapter_slugs,
                   wi_fetched>>

\* fetch_page(index_url) ends: it raises, or returns a page that has no
\* chapter link (RuntimeError), or returns the index, which is stored.
WIIndexFetched(c) ==
    /\ wi[c].pc = "index"
    /\ \E outcome \in {"error", "empty", "page"} :
          /\ wi_fetched' = [wi_fetched EXCEPT
                 !.index = IF outcome = "error" THEN @ ELSE @ + 1]
          /\ IF outcome = "page"
             THEN /\ chapter_slugs' = Len(wi_site)
                  /\ wi' = [wi EXCEPT ![c].pc = "chapters", ![c].ch = 1,
                         ![c].slugs = ChapterCut(Len(wi_site),
                                          wi[c].sample_mode, wi[c].max_chapters)]
             ELSE /\ wi' = [wi EXCEPT ![c].pc = "raised"]
                  /\ UNCHANGED chapter_slugs
    /\ UNCHANGED <<fetchVars, sessionVars, orchVars, miVars, clVars, jxVars,
                   vsVars, courtsVars, routerVars, wi_site>>

\* for chapter_slug in chapter_slugs: the budget check, then _scrape_chapter
\* up to its section loop; after the last chapter items_scraped is assigned
\* and the statutes are returned.
WIChapter(c) ==
    /\ wi[c].pc = "chapters"
    /\ IF wi[c].ch > wi[c].slugs
          \/ WiLimitReached(wi[c].statutes, wi[c].max_statutes)
       THEN /\ wi' = [wi EXCEPT ![c].pc = "returned"]
            /\ stats' = [stats EXCEPT !.items_scraped = wi[c].statutes]
            /\ wi_fetched' = [wi_fetched EXCEPT !.returned = @ + wi[c].statutes]
       ELSE /\ LET page == wi_site[wi[c].ch]
               IN  wi' = [wi EXCEPT ![c] =
                       IF ~page.fetch_ok \/ page.links = <<>>
                       THEN [@ EXCEPT !.ch = @ + 1]
                       ELSE [@ EXCEPT !.pc = "sections", !.sec = 1,
                                 !.links = IF wi[c].sample_mode
                                           THEN Min(WiSampleCap, Len(page.links))
                                           ELSE Len(page.links)]]
            /\ UNCHANGED <<stats, wi_fetched>>
    /\ UNCHANGED <<config, workload, now, session, request_times, pw, cache, call,
                   calls_left, log, sessionVars, orchVars, miVars, clVars,
                   jxVars, vsVars, courtsVars, routerVars, wi_site,
                   chapter_slugs>>

\* for link in section_links: the budget check, then _scrape_section; a
\* statute is appended, None and an exception are passed over.
WISection(c) ==
    /\ wi[c].pc = "sections"
    /\ wi' = [wi EXCEPT ![c] =
           IF wi[c].sec > wi[c].links
              \/ WiLimitReached(wi[c].statutes, wi[c].max_statutes)
           THEN [@ EXCEPT !.pc = "chapters", !.ch = @ + 1]
           ELSE [@ EXCEPT !.sec = @ + 1,
                     !.statutes =
                         IF wi_site[wi[c].ch].links[wi[c].sec] = "statute"
                         THEN @ + 1 ELSE @]]
    /\ UNCHANGED <<fetchVars, sessionVars, orchVars, miVars, clVars, jxVars,
                   vsVars, courtsVars, routerVars, wi_site, chapter_slugs,
                   wi_fetched>>

WisconsinCall(c) ==
    \/ WIScrapeState(c)
    \/ WIIndexFetched(c)
    \/ WIChapter(c)
    \/ WISection(c)

NextWisconsin == \E c \in WiCalls : WisconsinCall(c)

\* One scrape_state call on a new scraper.
NextWisconsinOnce == WisconsinCall(1)

\* ------------- CourtListenerStateCourtsScraper.scrape_state_cases
NoSc == [pc |-> "idle", max_cases |-> 0, court |-> 0, cases |-> 0]

\* No scrape_state_cases call is in progress.
ScIdle ==
    /\ court_list = 0
    /\ sc = NoSc

\* scrape_state_cases up to its loop: get_all_state_courts answers, and the
\* courts whose id matches the state are kept; with none of them the call
\* returns [].
ScrapeStateCases ==
    /\ sc.pc = "called"
    /\ \E n \in 0..MaxCourts :
          /\ court_list' = n
          /\ sc' = IF n = 0
                   THEN [sc EXCEPT !.pc = "returned"]
                   ELSE [sc EXCEPT !.pc = "courts", !.court = 1]
    /\ UNCHANGED <<fetchVars, sessionVars, orchVars, miVars, clVars, jxVars,
                   vsVars, wiVars, routerVars>>

\* for court in state_courts: scrape_court_cases(court_id, ..., max_cases)
\* is called with the budget of the whole call; the search for that court
\* has its own pages of results.
ScCourt ==
    /\ sc.pc = "courts"
    /\ sc' = [sc EXCEPT !.pc = "court"]
    /\ \E pages \in ApiPages : api' = [pages |-> pages, absolute_url |-> FALSE]
    /\ cl_args' = [scraper |-> "state_courts", max_cases |-> sc.max_cases]
    /\ cl' = [NoCl EXCEPT !.pc = "called"]
    /\ UNCHANGED <<fetchVars, sessionVars, orchVars, miVars, jxVars, vsVars,
                   wiVars, routerVars, court_list, cases, http>>

\* cases.extend(court_cases); if max_cases and len(cases) >= max_cases:
\* break; after the loop the cases are returned.
ScExtend ==
    /\ sc.pc = "court"
    /\ cl.pc = "returned"
    /\ LET total == sc.cases + Len(cases)
       IN  sc' = IF MaxCasesReached(total, sc.max_cases)
                    \/ sc.court = court_list
                 THEN [sc EXCEPT !.pc = "returned", !.cases = total]
                 ELSE [sc EXCEPT !.pc = "courts", !.cases = total,
                                 !.court = @ + 1]
    /\ cl' = NoCl
    /\ UNCHANGED <<fetchVars, sessionVars, orchVars, miVars, jxVars, vsVars,
                   wiVars, routerVars, court_list, api, cl_args, cases, http>>

NextStateCourts ==
    \/ ScrapeStateCases
    \/ ScCourt
    \/ ScExtend
    \/ NextCourtListener

\* ------------------------------------------------ ModelRouter.route_query
SimpleBelow == 20         \* if word_count < 20
MediumBelow == 100        \* elif word_count < 100

QueryTypes == {"simple_query", "complex_reasoning", "legal_analysis",
               "citation_extraction", "case_summarization", "contract_review",
               "precedent_search"}

\* strategy is any string; one that is neither "cost_optimized" nor
\* "performance" is routed as hybrid.
Strategies == {"cost_optimized", "performance", "hybrid", "other"}

NoRouted == [pc |-> "idle", model_type |-> "", model_name |-> ""]

Selected(model_type, model_name) ==
    [pc |-> "returned", model_type |-> model_type, model_name |-> model_name]

\* No route_query call is made.
RouterIdle ==
    /\ router = [strategy |-> "cost_optimized", word_count |-> 0,
                 query_type |-> "simple_query", prefer_local |-> FALSE]
    /\ routed = NoRouted

\* _analyze_complexity, on len(query.split())
AnalyzeComplexity(word_count) ==
    IF word_count < SimpleBelow THEN "simple"
    ELSE IF word_count < MediumBelow THEN "medium"
    ELSE "complex"

CostOptimizedRouting(query_type, complexity, prefer_local) ==
    IF complexity = "simple" \/ prefer_local
    THEN IF query_type \in {"citation_extraction", "simple_query"}
         THEN Selected("local", "llama3")
         ELSE Selected("local", "mixtral")
    ELSE IF query_type \in {"complex_reasoning", "legal_analysis"}
    THEN Selected("cloud", "gpt-4")
    ELSE Selected("cloud", "claude")

\* The cheapest model that serves the complexity: local for a simple query.
LocalWhenSimple(query_type, complexity) ==
    IF complexity = "simple"
    THEN Selected("local", "mixtral")
    ELSE Selected("cloud", "gpt-4")

PerformanceRouting(query_type, complexity) == Selected("cloud", "gpt-4")

HybridRouting(query_type, complexity, prefer_local) ==
    IF complexity = "simple"
    THEN CostOptimizedRouting(query_type, complexity, TRUE)
    ELSE PerformanceRouting(query_type, complexity)

RouteQuery ==
    /\ routed.pc = "called"
    /\ LET complexity == AnalyzeComplexity(router.word_count)
       IN  routed' =
             IF router.strategy = "cost_optimized"
             THEN CostOptimizedRouting(router.query_type, complexity,
                                       router.prefer_local)
             ELSE IF router.strategy = "performance"
             THEN PerformanceRouting(router.query_type, complexity)
             ELSE HybridRouting(router.query_type, complexity,
                                router.prefer_local)
    /\ UNCHANGED <<fetchVars, sessionVars, orchVars, miVars, clVars, jxVars,
                   vsVars, wiVars, courtsVars, router>>

NextRouter == RouteQuery

\* Nothing of the Wisconsin scraper, the state-courts scraper or the router
\* is in progress.
LaterIdle ==
    /\ WiIdle
    /\ ScIdle
    /\ RouterIdle

\* ------------------------------------------------------- specifications
\* ScraperConfig's defaults
DefaultRateLimitDelay == 1
DefaultMaxRetries == 3
DefaultMaxConcurrent == 5

\* One caller issuing fetch_page calls one after the other, under every
\* setting of cache_dir and enable_playwright.
Init ==
    /\ InitFetchCommon
    /\ OrchIdle
    /\ WalkIdle
    /\ ClIdle
    /\ JxIdle
    /\ VsIdle
    /\ SessionOpen
    /\ LaterIdle
    /\ \E cd \in BOOLEAN, e \in BOOLEAN :
          config = [rate_limit_delay |-> DefaultRateLimitDelay,
                    max_retries |-> DefaultMaxRetries,
                    max_concurrent_requests |-> DefaultMaxConcurrent,
                    cache_dir |-> cd, enable_playwright |-> e]
    /\ \E inst \in (IF config.enable_playwright THEN BOOLEAN ELSE {TRUE}) :
          workload = [plans |-> Plans, playwright_installed |-> inst]
    /\ \E ex \in (IF config.cache_dir THEN BOOLEAN ELSE {FALSE}) :
          cache = [exists |-> ex, writes |-> 0]
    /\ calls_left = [t \in Tasks |-> IF t = 1 THEN MaxCalls ELSE 0]

Next == NextFetch

Spec == Init /\ [][Next]_vars

\* Sequential fetch_page calls under every configured max_retries.
InitRetries ==
    /\ InitFetchCommon
    /\ OrchIdle
    /\ WalkIdle
    /\ ClIdle
    /\ JxIdle
    /\ VsIdle
    /\ SessionOpen
    /\ LaterIdle
    /\ \E m \in 1..MaxRetriesCfg :
          config = [rate_limit_delay |-> DefaultRateLimitDelay, max_retries |-> m,
                    max_concurrent_requests |-> DefaultMaxConcurrent,
                    cache_dir |-> FALSE, enable_playwright |-> TRUE]
    /\ workload = [plans |-> {p \in Plans : p.final \in {HTTP_OK, 429}},
                   playwright_installed |-> TRUE]
    /\ cache = [exists |-> FALSE, writes |-> 0]
    /\ calls_left = [t \in Tasks |-> IF t = 1 THEN MaxCalls ELSE 0]

SpecRetries == InitRetries /\ [][NextFetch]_vars

\* Several callers inside fetch_page at once on one scraper, as the units of
\* scrape_multiple_states are; one call each.
InitConcurrent ==
    /\ InitFetchCommon
    /\ OrchIdle
    /\ WalkIdle
    /\ ClIdle
    /\ JxIdle
    /\ VsIdle
    /\ SessionOpen
    /\ LaterIdle
    /\ \E d \in 1..MaxDelay, e \in BOOLEAN :
          config = [rate_limit_delay |-> d, max_retries |-> DefaultMaxRetries,
                    max_concurrent_requests |-> DefaultMaxConcurrent,
                    cache_dir |-> FALSE, enable_playwright |-> e]
    /\ workload = [plans |-> {p \in Plans : p.fails <= 1 /\ p.final \in {HTTP_OK, 429}},
                   playwright_installed |-> TRUE]
    /\ cache = [exists |-> FALSE, writes |-> 0]
    /\ calls_left = [t \in Tasks |-> 1]

SpecConcurrent == InitConcurrent /\ [][NextFetch]_vars

\* One scraper session from the first fetch_page call to close_session:
\* concurrent callers, one call each, Playwright enabled, then close_session
\* up to MaxCloses times.
InitSession ==
    /\ InitFetchCommon
    /\ OrchIdle
    /\ WalkIdle
    /\ ClIdle
    /\ JxIdle
    /\ VsIdle
    /\ SessionOpen
    /\ LaterIdle
    /\ config = [rate_limit_delay |-> DefaultRateLimitDelay,
                 max_retries |-> DefaultMaxRetries,
                 max_concurrent_requests |-> DefaultMaxConcurrent,
                 cache_dir |-> FALSE, enable_playwright |-> TRUE]
    /\ workload = [plans |-> {p \in Plans : p.fails <= 1 /\ p.final \in {HTTP_OK, 403}},
                   playwright_installed |-> TRUE]
    /\ cache = [exists |-> FALSE, writes |-> 0]
    /\ calls_left = [t \in Tasks |-> 1]

SpecSession == InitSession /\ [][NextSession]_vars

\* The fetch layer at rest.
FetchIdle ==
    /\ InitFetchCommon
    /\ workload = [plans |-> {}, playwright_installed |-> TRUE]
    /\ cache = [exists |-> FALSE, writes |-> 0]
    /\ calls_left = [t \in Tasks |-> 0]

\* scrape_multiple_states is called with any list of up to MaxUnits codes,
\* repeated codes included, and any cap.
InitOrchestrator ==
    /\ FetchIdle
    /\ WalkIdle
    /\ ClIdle
    /\ JxIdle
    /\ VsIdle
    /\ SessionOpen
    /\ LaterIdle
    /\ \E m \in 1..MaxCap :
          config = [rate_limit_delay |-> DefaultRateLimitDelay,
                    max_retries |-> DefaultMaxRetries,
                    max_concurrent_requests |-> m,
                    cache_dir |-> FALSE, enable_playwright |-> FALSE]
    /\ \E n \in 0..MaxUnits : state_codes \in [1..n -> Codes]
    /\ max_concurrent \in 0..MaxCap
    /\ semaphore = 0
    /\ unit = NoUnits
    /\ completed = <<>>
    /\ gathered = [pc |-> "called", mapping |-> <<>>]

SpecOrchestrator == InitOrchestrator /\ [][NextOrchestrator]_vars

\* The event loop runs a task that is ready whenever there is one (the call
\* itself, a task waiting for a permit that is free, gather once all tasks
\* are done), and every scrape_state call that was started ends: the call
\* does not stop while one of its steps can be taken.
FairOrchestrator == WF_vars(NextOrchestrator)

\* The codes enter no guard of the call: the units of the fair runs all
\* carry the same code.
InitOrchestratorFair ==
    /\ InitOrchestrator
    /\ \A i \in DOMAIN state_codes : state_codes[i] = "CA"

SpecOrchestratorFair ==
    InitOrchestratorFair /\ [][NextOrchestrator]_vars /\ FairOrchestrator

\* scrape_state is called on any site of up to MaxPages pages besides the
\* chapter index, with any budget, sample flag and per-chapter limit.
InitMichigan ==
    /\ FetchIdle
    /\ OrchIdle
    /\ ClIdle
    /\ JxIdle
    /\ VsIdle
    /\ SessionOpen
    /\ LaterIdle
    /\ config = [rate_limit_delay |-> DefaultRateLimitDelay,
                 max_retries |-> DefaultMaxRetries,
                 max_concurrent_requests |-> DefaultMaxConcurrent,
                 cache_dir |-> FALSE, enable_playwright |-> FALSE]
    /\ site \in Sites
    /\ args \in [state_code : {"MI", "mi", "OH"},
                 max_statutes : 0..MaxBudget,
                 sample_mode : BOOLEAN,
                 max_statutes_per_chapter : 0..MaxBudget]
    /\ visited_urls = {}
    /\ statutes = <<>>
    /\ stack = <<>>
    /\ fetched = [u \in Urls |-> 0]
    /\ walk = [pc |-> "called", result |-> <<>>]

SpecMichigan == InitMichigan /\ [][NextMichigan]_vars

\* Every fetch_page call of the walk ends, and the walk goes on while it has
\* a step to take.
SpecMichiganFair == SpecMichigan /\ WF_vars(NextMichigan)

\* Sites with a wide chapter index: the index lists chapters 1..n, and each
\* chapter is a statute page, a page that parses to nothing, or a listing of
\* the chapters after it.
WideSites ==
    UNION {{s \in [0..n -> [kind : {"listing", "statute", "empty"},
                            links : {<<>>} \cup {[k \in 1..m |-> n - m + k] : m \in 1..n}]] :
               /\ s[IndexUrl] = [kind |-> "listing", links |-> [k \in 1..n |-> k]]
               /\ \A u \in 1..n :
                     IF s[u].kind = "listing"
                     THEN s[u].links = [k \in 1..(n - u) |-> u + k]
                     ELSE s[u].links = <<>>} :
           n \in 0..MaxChapters}

\* scrape_state is called on a site with up to MaxChapters chapters on its
\* index, with any budget, sample flag and per-chapter limit.
InitMichiganWide ==
    /\ FetchIdle
    /\ OrchIdle
    /\ ClIdle
    /\ JxIdle
    /\ VsIdle
    /\ SessionOpen
    /\ LaterIdle
    /\ config = [rate_limit_delay |-> DefaultRateLimitDelay,
                 max_retries |-> DefaultMaxRetries,
                 max_concurrent_requests |-> DefaultMaxConcurrent,
                 cache_dir |-> FALSE, enable_playwright |-> FALSE]
    /\ site \in WideSites
    /\ args \in [state_code : {"MI"},
                 max_statutes : 0..MaxBudget,
                 sample_mode : BOOLEAN,
                 max_statutes_per_chapter : 0..MaxBudget]
    /\ visited_urls = {}
    /\ statutes = <<>>
    /\ stack = <<>>
    /\ fetched = [u \in DOMAIN site |-> 0]
    /\ walk = [pc |-> "called", result |-> <<>>]

SpecMichiganWide == InitMichiganWide /\ [][NextMichigan]_vars

\* Either CourtListener scraper is run against any search of up to MaxApiPages
\* pages, with any max_cases (0 for None).
InitCourtListener ==
    /\ FetchIdle
    /\ OrchIdle
    /\ WalkIdle
    /\ JxIdle
    /\ VsIdle
    /\ SessionOpen
    /\ LaterIdle
    /\ config = [rate_limit_delay |-> ApiRateLimitDelay,
                 max_retries |-> DefaultMaxRetries,
                 max_concurrent_requests |-> DefaultMaxConcurrent,
                 cache_dir |-> FALSE, enable_playwright |-> FALSE]
    /\ api \in [pages : ApiPages, absolute_url : BOOLEAN]
    /\ cl_args \in [scraper : Scrapers, max_cases : 0..MaxCases]
    /\ cases = <<>>
    /\ cl = [NoCl EXCEPT !.pc = "called"]
    /\ http = NoHttp

SpecCourtListener == InitCourtListener /\ [][NextCourtListener]_vars

\* JustiaScraper.scrape_state is called for any code on any index of up to
\* MaxSections code sections, with any max_statutes (0 for None) and either
\* sample flag.
InitJustia ==
    /\ FetchIdle
    /\ OrchIdle
    /\ WalkIdle
    /\ ClIdle
    /\ VsIdle
    /\ SessionOpen
    /\ LaterIdle
    /\ config = [rate_limit_delay |-> DefaultRateLimitDelay,
                 max_retries |-> DefaultMaxRetries,
                 max_concurrent_requests |-> DefaultMaxConcurrent,
                 cache_dir |-> FALSE, enable_playwright |-> FALSE]
    /\ jx_site \in JustiaSites
    /\ jx_args \in JxArgs
    /\ jx = [NoJx EXCEPT !.pc = "called"]
    /\ jx_fetched = [fetches |-> 0, late |-> 0, calls |-> 1, returned |-> 0]

SpecJustia == InitJustia /\ [][NextJustia]_vars

\* Up to MaxJxCalls scrape_state calls, one after the other, on one scraper.
NextJustiaSession ==
    \/ NextJustia
    \/ JxScrapeAgain

SpecJustiaSession == InitJustia /\ [][NextJustiaSession]_vars

\* validate_statute is called on any statute.
InitValidate ==
    /\ FetchIdle
    /\ OrchIdle
    /\ WalkIdle
    /\ ClIdle
    /\ JxIdle
    /\ SessionOpen
    /\ LaterIdle
    /\ config = [rate_limit_delay |-> DefaultRateLimitDelay,
                 max_retries |-> DefaultMaxRetries,
                 max_concurrent_requests |-> DefaultMaxConcurrent,
                 cache_dir |-> FALSE, enable_playwright |-> FALSE]
    /\ statute \in ScrapedStatutes
    /\ errors = [pc |-> "called", list |-> <<>>]

SpecValidate == InitValidate /\ [][NextValidate]_vars

\* Up to MaxWiCalls scrape_state("WI", ...) calls are made on one scraper, one
\* after the other or while another one is awaiting a page, with any
\* arguments, on any site of up to MaxWiChapters chapters.
InitWisconsin ==
    /\ FetchIdle
    /\ OrchIdle
    /\ WalkIdle
    /\ ClIdle
    /\ JxIdle
    /\ VsIdle
    /\ SessionOpen
    /\ ScIdle
    /\ RouterIdle
    /\ config = [rate_limit_delay |-> DefaultRateLimitDelay,
                 max_retries |-> DefaultMaxRetries,
                 max_concurrent_requests |-> DefaultMaxConcurrent,
                 cache_dir |-> FALSE, enable_playwright |-> FALSE]
    /\ wi_site \in WiSites
    /\ chapter_slugs = 0
    /\ wi = [c \in WiCalls |-> NoWiCall]
    /\ wi_fetched = NoWiFetched

SpecWisconsin == InitWisconsin /\ [][NextWisconsin]_vars

SpecWisconsinOnce == InitWisconsin /\ [][NextWisconsinOnce]_vars

\* scrape_state_cases is called for a state with any max_cases (0 for None).
InitStateCourts ==
    /\ FetchIdle
    /\ OrchIdle
    /\ WalkIdle
    /\ ClIdle
    /\ JxIdle
    /\ VsIdle
    /\ SessionOpen
    /\ WiIdle
    /\ RouterIdle
    /\ config = [rate_limit_delay |-> ApiRateLimitDelay,
                 max_retries |-> DefaultMaxRetries,
                 max_concurrent_requests |-> DefaultMaxConcurrent,
                 cache_dir |-> FALSE, enable_playwright |-> FALSE]
    /\ court_list = 0
    /\ \E b \in 0..MaxStateCases : sc = [NoSc EXCEPT !.pc = "called", !.max_cases = b]

SpecStateCourts == InitStateCourts /\ [][NextStateCourts]_vars

\* route_query is called on a router of any strategy with a query of any
\* number of words, any query type and either prefer_local.
InitRouter ==
    /\ FetchIdle
    /\ OrchIdle
    /\ WalkIdle
    /\ ClIdle
    /\ JxIdle
    /\ VsIdle
    /\ SessionOpen
    /\ WiIdle
    /\ ScIdle
    /\ config = [rate_limit_delay |-> DefaultRateLimitDelay,
                 max_retries |-> DefaultMaxRetries,
                 max_concurrent_requests |-> DefaultMaxConcurrent,
                 cache_dir |-> FALSE, enable_playwright |-> FALSE]
    /\ router \in [strategy : Strategies, word_count : 0..MaxWords,
                   query_type : QueryTypes, prefer_local : BOOLEAN]
    /\ routed = [NoRouted EXCEPT !.pc = "called"]

SpecRouter == InitRouter /\ [][NextRouter]_vars

\* ======================================================================
\* Claims
\* ======================================================================
DoneCalls == {t \in Tasks : call[t].pc = "done"}

\* C1: any two consecutive request dispatches made through fetch_page on one
\* scraper are at least rate_limit_delay seconds apart, under every
\* interleaving of concurrent fetch_page calls.
C1_DispatchesSeparated ==
    \A i \in 1..(Len(log.dispatches) - 1) :
        log.dispatches[i + 1] - log.dispatches[i] >= config.rate_limit_delay

Running == {i \in Units : unit[i].pc = "running"}

\* C2: with cap N (max_concurrent, or config.max_concurrent_requests when it
\* is not given) never more than N scrape_state calls execute at once.
C2_AtMostCapRunning ==
    Cardinality(Running) <=
        (IF max_concurrent # 0 THEN max_concurrent ELSE config.max_concurrent_requests)

C2_Witness ==
    /\ Len(state_codes) = 3
    /\ max_concurrent = 2
    /\ Cardinality(Running) = 2
    /\ \E i \in Units : unit[i].pc = "pending"

\* C3 as stated: when a unit raises, every other unit still completes and its
\* records appear unchanged in the returned mapping. (Read narrowly: only
\* units whose code no successful sibling shares are looked at.)
C3_SiblingRecordsUnchanged ==
    (gathered.pc = "returned" /\ \E i \in Units : unit[i].raised) =>
        \A j \in Units :
            (~unit[j].raised
                /\ \A k \in Units \ {j} :
                      state_codes[k] = state_codes[j] => unit[k].raised)
            => /\ unit[j].pc = "done"
               /\ gathered.mapping[state_codes[j]] = unit[j].statutes

\* C3 as amended: a raising unit never makes scrape_multiple_states raise or
\* return early; every submitted unit runs to completion, and the records of
\* every unit that returned appear unchanged in the mapping unless a unit
\* later in the list carries the same state code.
C3_FailureIsolated ==
    /\ gathered.pc # "raised"
    /\ gathered.pc = "returned" =>
          \A j \in 1..Len(state_codes) :
              /\ j \in Units
              /\ unit[j].pc = "done"
              /\ (~unit[j].raised
                    /\ \A k \in Units : k > j => state_codes[k] # state_codes[j])
                 => gathered.mapping[state_codes[j]] = unit[j].statutes

C3_Witness ==
    /\ gathered.pc = "returned"
    /\ \E i, j \in Units :
          /\ unit[i].raised
          /\ completed[1] = i
          /\ ~unit[j].raised
          /\ Len(unit[j].statutes) = 1
          /\ gathered.mapping[state_codes[j]] = unit[j].statutes

\* C4 as stated: the returned mapping has exactly one entry per submitted
\* unit, each holding that unit's records.
C4_OneEntryPerUnit ==
    gathered.pc = "returned" =>
        /\ Cardinality(DOMAIN gathered.mapping) = Len(state_codes)
        /\ \A i \in Units : gathered.mapping[state_codes[i]] = unit[i].statutes

\* C4 as amended: the returned mapping has exactly one entry per distinct
\* submitted state code, holding the records of the last unit submitted with
\* that code, whatever the order in which the units complete.
C4_OneEntryPerCode ==
    gathered.pc = "returned" =>
        /\ DOMAIN gathered.mapping = {state_codes[i] : i \in 1..Len(state_codes)}
        /\ \A i \in Units :
              (\A k \in Units : k > i => state_codes[k] # state_codes[i])
              => gathered.mapping[state_codes[i]] = unit[i].statutes

C4_Witness ==
    /\ gathered.pc = "returned"
    /\ state_codes = <<"CA", "NY", "CA">>
    /\ completed = <<3, 2, 1>>
    /\ \A i \in Units : Len(unit[i].statutes) = 1
    /\ gathered.mapping["CA"] = unit[3].statutes

\* C5: for every configured max_retries m and every k < m, a call whose first
\* k attempts fail transiently and whose attempt k+1 succeeds returns the page.
C5_TransientThenSuccessReturns ==
    \A t \in DoneCalls :
        (call[t].plan.final = HTTP_OK /\ call[t].plan.fails < config.max_retries)
            => call[t].result = "content"

\* C6 as stated: the wait before the retry that follows the n-th consecutive
\* transient failure is clamp(2 * 2^(n-1), 2, 10) seconds: 2, 4, 8, 10.
C6_WaitDoublesFromTwo ==
    \A t \in Tasks : \A n \in DOMAIN call[t].waits :
        call[t].waits[n] = Max(2, Min(2 * Pow(2, n - 1), 10))

\* C6 as amended: the wait after the n-th consecutive transient failure is
\* clamp(2^(n-1), 2, 10) seconds, which is 2 s after the first failure and 2 s
\* after the second; the third failure ends the call, so no third wait occurs.
C6_WaitIsTwoSeconds ==
    \A t \in Tasks :
        /\ Len(call[t].waits) <= 2
        /\ \A n \in DOMAIN call[t].waits : call[t].waits[n] = 2
        /\ call[t].pc = "backoff" => Len(call[t].waits) = call[t].attempt_number

C6_Witness ==
    \E t \in DoneCalls : call[t].waits = <<2, 2>> /\ call[t].result = "content"

\* 4xx other than 429, 5xx other than 503
NonTransientStatus(s) ==
    \/ (s >= 400 /\ s <= 499 /\ s # 429)
    \/ (s >= 500 /\ s <= 599 /\ s # 503)

\* C7 as stated: a call answered with a non-transient HTTP error makes exactly
\* one HTTP request, waits for no backoff, and surfaces the status error.
C7_NonTransientSingleRequest ==
    \A t \in Tasks :
        NonTransientStatus(call[t].status) =>
            /\ call[t].pc = "done"
            /\ call[t].result = "HTTPStatusError"
            /\ call[t].reqs = 1
            /\ call[t].waits = <<>>

\* C7 as amended: a non-transient HTTP error response, other than a 403 with
\* enable_playwright on, ends the call: the request it answers is the call's
\* last, no backoff wait follows it, the fallback is not used and the status
\* error surfaces. (Transient failures before it in the same call were retried.)
C7_NonTransientNotRetried ==
    \A t \in Tasks :
        (NonTransientStatus(call[t].status)
            /\ ~(config.enable_playwright /\ call[t].status = 403)) =>
            /\ call[t].pc = "done"
            /\ call[t].result = "HTTPStatusError"
            /\ call[t].reqs = call[t].plan.fails + 1
            /\ Len(call[t].waits) = call[t].plan.fails
            /\ call[t].fb = 0

C7_Witness ==
    \E t \in DoneCalls :
        /\ call[t].status = 404
        /\ call[t].result = "HTTPStatusError"
        /\ call[t].reqs = 1

\* C8: the browser fallback is invoked for a call iff enable_playwright is on
\* and the HTTP status is 403, 429 or 503, and then once; with the fallback off
\* a 429 surfaces as an error and no driver, browser or context is started.
C8_FallbackIffBlocked ==
    /\ \A t \in Tasks :
          /\ call[t].fb <= 1
          /\ call[t].fb = 1 <=>
                (config.enable_playwright /\ call[t].status \in {403, 429, 503})
          /\ (call[t].pc \in {"pw_ensure", "pw_start", "pw_launch", "pw_context", "pw_page",
                              "pw_challenge"}
                \/ call[t].result \in {"RuntimeError", "PlaywrightError"})
                => call[t].fb = 1
          /\ (~config.enable_playwright /\ call[t].status = 429) =>
                (call[t].pc = "done" /\ call[t].result = "HTTPStatusError")
    /\ ~config.enable_playwright =>
          /\ pw.drivers_started = 0 /\ pw.browsers_started = 0 /\ pw.contexts_started = 0
          /\ ~pw.driver /\ ~pw.browser /\ ~pw.context

C8_Witness ==
    \E t \in DoneCalls :
        /\ call[t].fb = 1
        /\ call[t].status = 429
        /\ call[t].result = "content"
        /\ pw.contexts_started = 1

\* C9: the cache is write-only. Every call dispatches a request whether or not
\* the cache file exists, every call that returns content writes the file
\* once, so n calls answered at once make n requests and n cache writes.
C9_CacheWriteOnly ==
    /\ \A t \in DoneCalls :
          /\ call[t].reqs >= 1
          /\ call[t].writes =
                (IF config.cache_dir /\ call[t].result = "content" THEN 1 ELSE 0)
    /\ cache.writes = (IF config.cache_dir THEN log.returned ELSE 0)
    /\ (\A t \in Tasks : call[t].pc \in {"idle", "done"}) =>
          Len(log.dispatches) = log.calls_done + log.retries

C9_Witness ==
    /\ config.cache_dir
    /\ cache.exists
    /\ log.calls_done = 2
    /\ log.returned = 2
    /\ log.retries = 0
    /\ Len(log.dispatches) = 2
    /\ cache.writes = 2

\* C10: during one scrape_state traversal no URL is fetched more than once,
\* whatever the links: pages with several parents, pages linking back to an
\* ancestor, and the chapter index page itself.
C10_NoUrlFetchedTwice ==
    \A u \in DOMAIN fetched : fetched[u] <= 1

\* The API results that normalise to a record: those with a case name.
RECURSIVE CountNamed(_)
CountNamed(results) ==
    IF results = <<>> THEN 0
    ELSE (IF Head(results) = "named" THEN 1 ELSE 0) + CountNamed(Tail(results))

RECURSIVE TotalAvailable(_)
TotalAvailable(pages) ==
    IF pages = <<>> THEN 0
    ELSE CountNamed(Head(pages)) + TotalAvailable(Tail(pages))

\* Every page before the last has at least one result.
NoEmptyPageBeforeLast ==
    \A p \in 1..(Len(api.pages) - 1) : api.pages[p] # <<>>

RECURSIVE CountOk(_)
CountOk(links) ==
    IF links = <<>> THEN 0
    ELSE (IF Head(links) = "ok" THEN 1 ELSE 0) + CountOk(Tail(links))

SectionYield(section) ==
    CountOk(IF jx_args.sample_mode THEN Take(section.links, 1) ELSE section.links)

\* The records obtainable from the visited sections: sections are visited in
\* index order until their yields add up to the budget b.
RECURSIVE Obtainable(_, _, _)
Obtainable(sections, b, sofar) ==
    IF sections = <<>> \/ sofar >= b THEN sofar
    ELSE Obtainable(Tail(sections), b, sofar + SectionYield(Head(sections)))

\* C13: JustiaScraper.scrape_state(code, max_statutes=b) with b >= 1 returns
\* exactly min(b, records obtainable from the visited sections) records,
\* each with state equal to the upper-cased requested code.
C13_ReturnsMinOfBudgetAndObtainable ==
    (jx.pc = "returned" /\ jx_args.max_statutes >= 1)
        => /\ Len(jx.result) =
                  Min(jx_args.max_statutes,
                      Obtainable(jx_site.sections, jx_args.max_statutes, 0))
           /\ \A k \in 1..Len(jx.result) :
                  jx.result[k].state = Upper(jx_args.state_code)

\* One section with 3 statute pages and b = 2: exactly 2 records for "CA".
C13_Witness ==
    /\ jx.pc = "returned"
    /\ jx_args.max_statutes = 2
    /\ jx_args.state_code = "ca"
    /\ jx_site.sections = <<[ok |-> TRUE, links |-> <<"ok", "ok", "ok">>]>>
    /\ Len(jx.result) = 2
    /\ \A k \in 1..2 : jx.result[k].state = "CA"

\* C14: once the records collected reach max_statutes, no further section
\* page or statute page is fetched.
C14_NoFetchAfterBudget ==
    jx_fetched.late = 0

\* The checks a statute fails, by the name of the field checked.
FailedChecks ==
    {f \in FieldNames :
        CASE f = "state" -> statute.state # 2
          [] f = "full_text" -> statute.full_text < 50
          [] OTHER -> statute[f] < 1}

\* C15: validate_statute returns for every record; the list is empty exactly
\* when state has length 2, statute_number, title and source_url are
\* non-empty and full_text has at least 50 characters, and otherwise holds
\* one violation per failed check.
C15_OneViolationPerFailedCheck ==
    /\ errors.pc \in {"idle", "called", "returned"}
    /\ errors.pc = "returned"
          => /\ Len(errors.list) = Cardinality(FailedChecks)
             /\ \A i, j \in 1..Len(errors.list) :
                    i # j => errors.list[i] # errors.list[j]
             /\ errors.list = <<>> <=>
                    /\ statute.state = 2
                    /\ statute.statute_number >= 1
                    /\ statute.title >= 1
                    /\ statute.source_url >= 1
                    /\ statute.full_text >= 50

\* A record whose only fault is a 10-character body is flagged.
C15_Witness ==
    /\ errors.pc = "returned"
    /\ statute = [state |-> 2, statute_number |-> 1, title |-> 1,
                  full_text |-> 10, source_url |-> 1]
    /\ errors.list = <<"Statute text too short or missing">>

\* C16: a unit whose scrape_state raised is recorded in the returned mapping
\* so that it differs from a unit that returned zero records, whose entry
\* is the empty list.
C16_FailureDistinguishable ==
    gathered.pc = "returned" =>
        \A i \in Units :
            (/\ unit[i].raised
             /\ \A k \in Units : k > i => state_codes[k] # state_codes[i])
                => gathered.mapping[state_codes[i]] # Statutes(i, 0)

\* C17: a failure on a page below the chapter index (a page fetched by
\* _scrape_listing, which puts its URL in the visited set first) is caught:
\* scrape_state raises only for a wrong state code or a failing index page.
C17_FailureBelowIndexCaught ==
    walk.pc = "raised" => visited_urls = {}

\* C18: in one session at most one browser and one browsing context are
\* started, however the escalating fetch_page calls interleave.
C18_AtMostOneBrowserAndContext ==
    /\ pw.browsers_started <= 1
    /\ pw.contexts_started <= 1

\* C19: once close_session has returned, the HTTP session is closed and set
\* to None and every Playwright driver, browser and context that was
\* started has been closed.
C19_EveryResourceReleased ==
    closing.pc = "closed" =>
        /\ ~session
        /\ closing.contexts_closed = pw.contexts_started
        /\ closing.browsers_closed = pw.browsers_started
        /\ closing.drivers_stopped = pw.drivers_started

C22_SampleFollowsAtMostThree ==
    args.sample_mode =>
        \A k \in 1..Len(stack) : stack[k].followed <= SampleCap

\* C23: on one Wisconsin scraper the chapter index page is successfully
\* fetched at most once, however many scrape_state calls are made and however
\* they are scheduled; every later call reuses the stored list.
C23_IndexFetchedAtMostOnce == wi_fetched.index <= 1

\* C24: when every scrape_state call ends, by returning or by raising,
\* scrape_multiple_states eventually returns: every unit gets a permit, and
\* the permit is given back on the success path and on the failure path.
C24_EventuallyReturns == <>(gathered.pc = "returned")

\* More units than permits, one of which raised, and the call has returned.
C24_Witness ==
    /\ gathered.pc = "returned"
    /\ Len(state_codes) > ConcurrencyCap
    /\ \E i \in Units : unit[i].raised
    /\ \E i \in Units : ~unit[i].raised

\* C25: under the "performance" strategy route_query returns a cloud model,
\* whatever the query's length, the query type and prefer_local.
C25_PerformanceRoutesToCloud ==
    router.strategy = "performance" /\ routed.pc = "returned" =>
        routed.model_type = "cloud"

\* A short query with prefer_local set was routed under "performance".
C25_Witness ==
    /\ router.strategy = "performance"
    /\ routed.pc = "returned"
    /\ router.word_count < SimpleBelow
    /\ router.prefer_local
    /\ router.query_type = "simple_query"

C27_WalkTerminates == <>(walk.pc \in {"returned", "raised"})

\* The walk returned after it was led back to the chapter index and to a page
\* it had visited.
C27_Witness ==
    /\ walk.pc = "returned"
    /\ args.max_statutes = 0
    /\ fetched[IndexUrl] = 2
    /\ \E u \in Urls \ {IndexUrl} :
          /\ site[u].kind = "listing"
          /\ fetched[u] = 1
          /\ \E i \in DOMAIN site[u].links : site[u].links[i] = u

\* C28: with max_statutes_per_chapter = k >= 1 at most k records are
\* collected from any single chapter, whatever lies below the chapter.
C28_AtMostKPerChapter ==
    stack # <<>> /\ args.max_statutes_per_chapter >= 1 =>
        Len(statutes) - stack[1].base <= args.max_statutes_per_chapter

\* C29: stats["items_scraped"] is a session total: after any sequence of
\* scrape_state calls on one scraper it equals the number of records those
\* calls returned together.
C29_ItemsScrapedIsSessionTotal ==
    jx.pc = "returned" => stats.items_scraped = jx_fetched.returned

\* The statutes _scrape_chapter collects from a chapter page when no budget
\* stops it.
ChapterYield(page, sample_mode) ==
    LET n == IF sample_mode THEN Min(WiSampleCap, Len(page.links))
             ELSE Len(page.links)
    IN  Cardinality({i \in 1..n : page.links[i] = "statute"})

\* The statutes of the first n chapters together.
RECURSIVE Unbudgeted(_, _)
Unbudgeted(n, sample_mode) ==
    IF n = 0 THEN 0
    ELSE Unbudgeted(n - 1, sample_mode) + ChapterYield(wi_site[n], sample_mode)

====
